---- MODULE Spec2Model ----
(***************************************************************************)
(* Adaptive vector clustering and topic merging of the learning-memory     *)
(* services: cluster-count selection, k-means partitioning with its        *)
(* retry, keyword-seeded topic discovery with its merge pass, and          *)
(* similarity retrieval.  Each entry point is a small state machine over   *)
(* its own variables; the variables of the other entry points stay idle.   *)
(***************************************************************************)
EXTENDS Integers, Sequences, FiniteSets, TLC

\* ------------------------------------------------------------------------
\* Bounds of the model
\* ------------------------------------------------------------------------

\* Largest number of vectors handed to determine_optimal_clusters.
MaxSamples == 2100

\* Silhouette scores are floats in (-1, 1]; the model keeps them as integers
\* score * ScoreScale, so -ScoreScale stands for the initial max_score = -1.
ScoreScale == 2

\* ------------------------------------------------------------------------
\* Program constants
\* ------------------------------------------------------------------------

min_clusters == 3
max_clusters == 40
min_force_clusters == 30
force_min_threshold == 400
small_threshold == 20
huge_divisor == 50
pca_components == 100
max_sample_size == 1000
import_error_clusters == 5
attempt_divisor == 5
step_divisor == 10
formula_min == 5
formula_max == 30

\* Vector dimensions of the inputs: at and above the PCA threshold.
Dimensions == {pca_components, 3072}

\* ------------------------------------------------------------------------
\* Helpers
\* ------------------------------------------------------------------------

Min(a, b) == IF a <= b THEN a ELSE b

Max(a, b) == IF a >= b THEN a ELSE b

\* int(np.sqrt(x)) for a non-negative integer x: the floor of the square root.
RECURSIVE SqrtFrom(_, _)
SqrtFrom(x, r) == IF (r + 1) * (r + 1) > x THEN r ELSE SqrtFrom(x, r + 1)

\* int(np.sqrt(sample_count / 2)): sample_count / 2 is a float division, and
\* the floor of its square root equals that of the integer half.
IntSqrtHalf(n) == SqrtFrom(n \div 2, 0)

\* ------------------------------------------------------------------------
\* determine_optimal_clusters (clustering_core.py, app.py)
\* ------------------------------------------------------------------------

VARIABLES
    sel_pc,            \* position in determine_optimal_clusters
    sklearn_ok,        \* whether scikit-learn can be imported
    sample_count,      \* len(vectors)
    vector_dimension,  \* len(vectors[0])
    n_clusters,        \* the candidate of the silhouette loop
    max_score,         \* best silhouette score so far (scaled)
    best_n_clusters,   \* candidate that reached max_score
    sel_trials,        \* number of candidates evaluated by the loop
    sel_result         \* the returned k, or 0 while running / after a raise

selVars == <<sel_pc, sklearn_ok, sample_count, vector_dimension, n_clusters,
             max_score, best_n_clusters, sel_trials, sel_result>>

\* Mutant of TinyClusters: the halving of sample_count is forgotten.
TinyClustersNoHalving(n) == Max(2, Min(5, n))

\* Tiny tier: max(2, min(5, sample_count // 2)).
TinyClusters(n) == Max(2, Min(5, n \div 2))

\* Mutant of HugeClusters: the cap at max_clusters is forgotten.
HugeClustersNoCap(n) == Max(min_force_clusters, n \div huge_divisor)

\* Huge tier: min(max_clusters, max(min_force_clusters, sample_count // 50)).
HugeClusters(n) == Min(max_clusters, Max(min_force_clusters, n \div huge_divisor))

\* max_attempt = min(max_clusters, sample_count // 5).
MaxAttempt(n) == Min(max_clusters, n \div attempt_divisor)

\* Mutant of Step: every count up to max_attempt is tried.
StepOne(n) == 1

\* step = max(1, (max_attempt - min_clusters) // 10).
Step(n) == Max(1, (MaxAttempt(n) - min_clusters) \div step_divisor)

\* len(sample_vectors): evenly spaced subsample above max_sample_size.
SampleLen(n) == IF n > max_sample_size THEN max_sample_size ELSE n

\* Mutant of FormulaClusters: the square root is rounded to the nearest
\* integer.
FormulaClustersRounded(n) ==
    LET r == IntSqrtHalf(n)
    IN  Min(formula_max,
            Max(formula_min, IF n >= 2 * r * r + 2 * r + 1 THEN r + 1 ELSE r))

\* Empirical formula: min(30, max(5, int(np.sqrt(sample_count / 2)))).
FormulaClusters(n) == Min(formula_max, Max(formula_min, IntSqrtHalf(n)))

\* PCA(n_components=100).fit_transform raises ValueError unless
\* 100 <= min(n_samples, n_features).
PcaMustRaise(n, d) == Min(n, d) < pca_components

Scores == (1 - ScoreScale)..ScoreScale

\* What one trial of the silhouette loop can do: the fit raises, the labels
\* hold a single cluster, silhouette_score raises, or it gives a score.
ScoredOutcomes == {<<"score", sc>> : sc \in Scores}

TrialOutcomes ==
    {<<"fit_raises", 0>>, <<"one_label", 0>>, <<"score_raises", 0>>}
    \cup ScoredOutcomes

ScoreOf(outcome) == outcome[2]

InitSelector ==
    /\ sel_pc = "import"
    /\ sklearn_ok \in BOOLEAN
    /\ sample_count \in 0..MaxSamples
    /\ vector_dimension \in Dimensions
    /\ n_clusters = 0
    /\ max_score = -ScoreScale
    /\ best_n_clusters = 0
    /\ sel_trials = 0
    /\ sel_result = 0

IdleSelector ==
    /\ sel_pc = "idle"
    /\ sklearn_ok = TRUE
    /\ sample_count = 0
    /\ vector_dimension = 0
    /\ n_clusters = 0
    /\ max_score = -ScoreScale
    /\ best_n_clusters = 0
    /\ sel_trials = 0
    /\ sel_result = 0

SelReturn(k) ==
    /\ sel_pc' = "returned"
    /\ sel_result' = k

SelRaise ==
    /\ sel_pc' = "raised"
    /\ sel_result' = 0

\* The guarded import of scikit-learn: ImportError returns 5.
SelImport ==
    /\ sel_pc = "import"
    /\ IF sklearn_ok
         THEN sel_pc' = "tier" /\ sel_result' = sel_result
         ELSE SelReturn(import_error_clusters)
    /\ UNCHANGED <<sklearn_ok, sample_count, vector_dimension, n_clusters,
                   max_score, best_n_clusters, sel_trials>>

\* The tiny and huge tiers return at once; the mid tier goes on.
SelTier ==
    /\ sel_pc = "tier"
    /\ IF sample_count < small_threshold
         THEN SelReturn(TinyClusters(sample_count))
         ELSE IF sample_count >= force_min_threshold
                THEN SelReturn(HugeClusters(sample_count))
                ELSE sel_pc' = "pca" /\ sel_result' = sel_result
    /\ UNCHANGED <<sklearn_ok, sample_count, vector_dimension, n_clusters,
                   max_score, best_n_clusters, sel_trials>>

\* PCA projection when the dimension exceeds 100 (not inside any try), then
\* the initialisation of the silhouette loop.
SelPCA ==
    /\ sel_pc = "pca"
    /\ \E pca_raises \in BOOLEAN :
         /\ vector_dimension > pca_components
              => (PcaMustRaise(sample_count, vector_dimension) => pca_raises)
         /\ vector_dimension <= pca_components => ~pca_raises
         /\ IF pca_raises
              THEN /\ SelRaise
                   /\ UNCHANGED <<n_clusters, max_score, best_n_clusters>>
              ELSE /\ sel_pc' = "loop"
                   /\ sel_result' = sel_result
                   /\ n_clusters' = min_clusters
                   /\ max_score' = -ScoreScale
                   /\ best_n_clusters' = min_clusters
    /\ UNCHANGED <<sklearn_ok, sample_count, vector_dimension, sel_trials>>

\* One iteration of "for n_clusters in range(min_clusters, max_attempt + 1,
\* step)": the trial fit (not inside any try), the unique-label test and the
\* silhouette score (inside a try whose handler continues).
SelTrial ==
    /\ sel_pc = "loop"
    /\ n_clusters <= MaxAttempt(sample_count)
    /\ n_clusters < SampleLen(sample_count)
    /\ \E outcome \in TrialOutcomes :
         IF outcome[1] = "fit_raises"
           THEN /\ SelRaise
                /\ UNCHANGED <<n_clusters, max_score, best_n_clusters, sel_trials>>
           ELSE /\ sel_pc' = "loop"
                /\ sel_result' = sel_result
                /\ sel_trials' = sel_trials + 1
                /\ n_clusters' = n_clusters + Step(sample_count)
                /\ IF outcome \in ScoredOutcomes /\ ScoreOf(outcome) > max_score
                     THEN /\ max_score' = ScoreOf(outcome)
                          /\ best_n_clusters' = n_clusters
                     ELSE UNCHANGED <<max_score, best_n_clusters>>
    /\ UNCHANGED <<sklearn_ok, sample_count, vector_dimension>>

\* The end of the loop (range exhausted or break), the empirical formula
\* when no score was recorded, and the return.
SelFinish ==
    /\ sel_pc = "loop"
    /\ \/ n_clusters > MaxAttempt(sample_count)
       \/ n_clusters >= SampleLen(sample_count)
    /\ IF best_n_clusters = min_clusters /\ max_score = -ScoreScale
         THEN SelReturn(FormulaClusters(sample_count))
         ELSE SelReturn(best_n_clusters)
    /\ UNCHANGED <<sklearn_ok, sample_count, vector_dimension, n_clusters,
                   max_score, best_n_clusters, sel_trials>>

\* ------------------------------------------------------------------------
\* cluster_vectors (clustering_core.py, clustering.py,
\* python_direct_clustering.py)
\* ------------------------------------------------------------------------

\* Largest number of {id, vector} records in one clustering call.
MaxVectors == 3

\* Largest cluster count a caller requests explicitly.
MaxRequested == 3

fallback_clusters == 5

VARIABLES
    cv_pc,              \* "start", "retry", "done"
    cv_impl,            \* which cluster_vectors: "core", "service", "direct"
    cv_sklearn,         \* whether scikit-learn can be imported
    ids,                \* the ids of memory_vectors, in input order
    vector_dim,         \* len(vectors[0]) of the input
    use_pca,
    vectors_bad,        \* the vectors make np.array or every k-means fit raise
                        \* (NaN values, unequal lengths)
    use_optimal_clusters,
    requested_clusters, \* the n_clusters argument, 0 for None
    cv_k,               \* n_clusters of the last k-means fit that was tried
    cv_optimal,         \* optimal_n_clusters as determined, 0 when it was not
    cv_primary_failed,  \* the primary attempt raised
    cv_retries,         \* number of simplified retries run
    cv_clusters,        \* result["centroids"]: the points (ids) of each cluster
    cv_center_dim,      \* the length of each returned center, 0 without centers
    cv_error,           \* "none" or the kind of error the result reports
    cv_causes,          \* the underlying causes the error message carries
    seed_k,             \* n_clusters of the last fit made with random_state=42
    seed_labels,        \* the labels that fit returned for the input
    cv_call,            \* 1 for the first call, 2 for the same call made again
    first_clusters      \* the clusters the first call returned

cvVars == <<cv_pc, cv_impl, cv_sklearn, ids, vector_dim, use_pca, vectors_bad,
            use_optimal_clusters, requested_clusters, cv_k, cv_optimal,
            cv_primary_failed,
            cv_retries, cv_clusters, cv_center_dim, cv_error, cv_causes,
            seed_k, seed_labels, cv_call, first_clusters>>

cvInput == <<cv_impl, cv_sklearn, ids, vector_dim, use_pca, vectors_bad,
             use_optimal_clusters, requested_clusters>>

\* Vector dimensions of a clustering call: at and above the PCA threshold.
ClusterDimensions == {pca_components, 3072}

\* preprocess_vectors as cluster_vectors calls it: the dimension of
\* processed_vectors.  A PCA that raises is caught and leaves the vectors.
ProcessedDim(n, d, pca) ==
    IF pca /\ d > pca_components /\ ~PcaMustRaise(n, d)
      THEN pca_components
      ELSE d

\* What determine_optimal_clusters can hand back for n vectors of dimension d:
\* a cluster count, or 0 when it raises (PCA or a trial fit).
SelectorOutcomes(n, d) ==
    IF n < small_threshold THEN {TinyClusters(n)}
    ELSE IF n >= force_min_threshold THEN {HugeClusters(n)}
    ELSE IF d > pca_components /\ PcaMustRaise(n, d) THEN {0}
    ELSE {0, FormulaClusters(n)}
         \cup {c \in min_clusters..MaxAttempt(n) :
                 (c - min_clusters) % Step(n) = 0}

\* ClusteringService.determine_optimal_k.
determine_optimal_k(data_size) ==
    IF data_size < 10 THEN Max(2, data_size \div 2)
    ELSE IF data_size < 30 THEN Max(3, data_size \div 6)
    ELSE IF data_size < 100 THEN Max(4, data_size \div 15)
    ELSE Max(5, data_size \div 30)

\* determine_optimal_clusters of python_direct_clustering.py.
DirectClusters(n_samples) ==
    IF n_samples <= 10 THEN Max(2, n_samples \div 2)
    ELSE LET initial == IF n_samples >= 400 THEN Max(30, n_samples \div 10)
                        ELSE IF n_samples >= 100 THEN Max(15, n_samples \div 8)
                        ELSE Max(8, n_samples \div 5)
             capped == Min(initial, n_samples \div 2)
         IN  IF capped < 10 /\ n_samples >= 20 THEN 10 ELSE capped

\* Mutant of HarmonicClusters: the quotient is rounded up.
HarmonicClustersCeiling(r, a) == (2 * r * a + r + a - 1) \div (r + a)

\* int((2 * n_clusters * optimal) / (n_clusters + optimal)).
HarmonicClusters(r, a) == (2 * r * a) \div (r + a)

\* Mutant of FitRaises: vectors the fit cannot use are clustered all the same.
FitRaisesOnCountOnly(k, n, bad) == k < 1 \/ k > n

\* KMeans(n_clusters=k).fit_predict on n samples raises ValueError unless
\* 1 <= k <= n, and raises on vectors it cannot use.
FitRaises(k, n, bad) == k < 1 \/ k > n \/ bad

\* The smallest batch on which PCA(n_components=100) does not raise.
LargeBatch == pca_components

\* The labelings fit_predict can return: one label in range(k) per sample.
\* Of the labelings of a batch above MaxVectors two are followed: the labels
\* in rotation, and every sample in cluster 0.
Labelings(n, k) ==
    IF n <= MaxVectors THEN [1..n -> 0..(k - 1)]
    ELSE {[x \in 1..n |-> (x - 1) % k], [x \in 1..n |-> 0]}

\* The labelings a fit with random_state=42 can return: the seed fixes the
\* result for an input and a cluster count, so a fit repeated with the same
\* count returns the labels it returned before.
SeededLabelings(n, k) ==
    IF seed_k = k THEN {seed_labels} ELSE Labelings(n, k)

\* The labelings a fit without random_state can return: any of them, anew
\* on every call.
UnseededLabelings(n, k) == Labelings(n, k)

\* Mutant of ClusterRange: the loop stops one label early.
ClusterRangeShort(k) == 0..(k - 2)

\* range(n_clusters) of the loops that collect the clusters.
ClusterRange(k) == 0..(k - 1)

\* [ids[idx] for idx in np.where(labels == i)[0]]
\* The ids at the positions j, j+1, ... that carry label i, in input order.
PointsFrom(idseq, labels, i, j) ==
    LET indices == SelectSeq([x \in 1..Len(idseq) |-> x],
                             LAMBDA x : x >= j /\ labels[x] = i)
    IN  [p \in 1..Len(indices) |-> idseq[indices[p]]]

\* The clusters of labels i, i+1, ... in range(k); an empty one is skipped
\* when drop_empty.
RECURSIVE ClustersFrom(_, _, _, _, _)
ClustersFrom(idseq, labels, k, i, drop_empty) ==
    IF i \notin ClusterRange(k) THEN <<>>
    ELSE LET points == PointsFrom(idseq, labels, i, 1)
         IN  (IF drop_empty /\ points = <<>> THEN <<>> ELSE <<points>>)
             \o ClustersFrom(idseq, labels, k, i + 1, drop_empty)

\* The sequences of at most n ids drawn from 1..n.
IdSequences(n) == UNION {[1..m -> 1..n] : m \in 0..n}

InitCluster ==
    /\ cv_pc = "start"
    /\ ids \in IdSequences(MaxVectors) \cup {[x \in 1..LargeBatch |-> x]}
    /\ vector_dim \in ClusterDimensions
    /\ vectors_bad \in BOOLEAN
    /\ \/ /\ cv_impl = "core"
          /\ cv_sklearn \in BOOLEAN
          /\ use_pca \in BOOLEAN
          /\ use_optimal_clusters \in BOOLEAN
          /\ requested_clusters \in 0..MaxRequested
       \/ /\ cv_impl = "service"
          /\ cv_sklearn \in BOOLEAN
          /\ use_pca = FALSE
          /\ use_optimal_clusters = FALSE
          /\ requested_clusters \in 0..MaxRequested
       \/ /\ cv_impl = "direct"
          /\ cv_sklearn = TRUE
          /\ use_pca = FALSE
          /\ use_optimal_clusters = TRUE
          /\ requested_clusters = 0
    /\ cv_k = 0
    /\ cv_optimal = 0
    /\ cv_primary_failed = FALSE
    /\ cv_retries = 0
    /\ cv_clusters = <<>>
    /\ cv_center_dim = 0
    /\ cv_error = "none"
    /\ cv_causes = {}
    /\ seed_k = 0
    /\ seed_labels = <<>>
    /\ cv_call = 1
    /\ first_clusters = <<>>

IdleCluster ==
    /\ cv_pc = "idle"
    /\ cv_impl = "core"
    /\ cv_sklearn = TRUE
    /\ ids = <<>>
    /\ vector_dim = 0
    /\ use_pca = FALSE
    /\ vectors_bad = FALSE
    /\ use_optimal_clusters = TRUE
    /\ requested_clusters = 0
    /\ cv_k = 0
    /\ cv_optimal = 0
    /\ cv_primary_failed = FALSE
    /\ cv_retries = 0
    /\ cv_clusters = <<>>
    /\ cv_center_dim = 0
    /\ cv_error = "none"
    /\ cv_causes = {}
    /\ seed_k = 0
    /\ seed_labels = <<>>
    /\ cv_call = 1
    /\ first_clusters = <<>>

\* A return of a result dict.
CVReturn(clusters, center_dim, error, causes) ==
    /\ cv_pc' = "done"
    /\ cv_clusters' = clusters
    /\ cv_center_dim' = IF clusters = <<>> THEN 0 ELSE center_dim
    /\ cv_error' = error
    /\ cv_causes' = causes

\* A fit with random_state=42 returned labels for k clusters.
SeededFit(k, labels) ==
    /\ seed_k' = k
    /\ seed_labels' = labels

\* clustering_core.cluster_vectors, the body of the outer try.
CorePrimary ==
    /\ cv_pc = "start"
    /\ cv_impl = "core"
    /\ IF ~cv_sklearn
         THEN /\ CVReturn(<<>>, 0, "sklearn_unavailable", {})
              /\ UNCHANGED <<cv_k, cv_optimal, cv_primary_failed, seed_k, seed_labels>>
         ELSE IF Len(ids) = 0
         THEN /\ CVReturn(<<>>, 0, "none", {})
              /\ UNCHANGED <<cv_k, cv_optimal, cv_primary_failed, seed_k, seed_labels>>
         ELSE \E optimal \in SelectorOutcomes(
                               Len(ids), ProcessedDim(Len(ids), vector_dim, use_pca)) :
                LET selector_raises == use_optimal_clusters /\ optimal = 0
                    k == IF use_optimal_clusters
                           THEN IF requested_clusters = 0 THEN optimal
                                ELSE HarmonicClusters(requested_clusters, optimal)
                           ELSE IF requested_clusters = 0
                                  THEN Min(fallback_clusters, Len(ids))
                                  ELSE requested_clusters
                IN  /\ cv_optimal' = IF use_optimal_clusters THEN optimal ELSE 0
                    /\ IF selector_raises \/ FitRaises(k, Len(ids), vectors_bad)
                      THEN /\ cv_pc' = "retry"
                           /\ cv_primary_failed' = TRUE
                           /\ cv_k' = IF selector_raises THEN cv_k ELSE k
                           /\ UNCHANGED <<cv_clusters, cv_center_dim, cv_error,
                                          cv_causes, seed_k, seed_labels>>
                      ELSE /\ cv_k' = k
                           /\ cv_primary_failed' = FALSE
                           /\ \E labels \in SeededLabelings(Len(ids), k) :
                                /\ SeededFit(k, labels)
                                /\ CVReturn(ClustersFrom(ids, labels, k, 0, TRUE),
                                            ProcessedDim(Len(ids), vector_dim, use_pca),
                                            "none", {})
    /\ UNCHANGED <<cv_retries, cv_call, first_clusters>>
    /\ UNCHANGED cvInput

\* clustering_core.cluster_vectors, the handler of the outer try: the
\* simplified retry and, when it raises too, the error result.
CoreRetry ==
    /\ cv_pc = "retry"
    /\ cv_impl = "core"
    /\ LET k == Min(fallback_clusters, Len(ids))
       IN  /\ cv_k' = k
           /\ cv_retries' = cv_retries + 1
           /\ IF FitRaises(k, Len(ids), vectors_bad)
                THEN CVReturn(<<>>, 0, "clustering_failed", {"primary", "retry"})
                ELSE \E labels \in UnseededLabelings(Len(ids), k) :
                       CVReturn(ClustersFrom(ids, labels, k, 0, TRUE),
                                vector_dim, "none", {})
    /\ UNCHANGED <<cv_optimal, cv_primary_failed, seed_k, seed_labels, cv_call,
                   first_clusters>>
    /\ UNCHANGED cvInput

\* ClusteringService.cluster_vectors.
ServiceCluster ==
    /\ cv_pc = "start"
    /\ cv_impl = "service"
    /\ IF ~cv_sklearn
         THEN /\ CVReturn(<<>>, 0, "sklearn_unavailable", {})
              /\ UNCHANGED <<cv_k, cv_primary_failed, seed_k, seed_labels>>
         ELSE IF Len(ids) < 2
         THEN /\ CVReturn(<<>>, 0, "insufficient_data", {})
              /\ UNCHANGED <<cv_k, cv_primary_failed, seed_k, seed_labels>>
         ELSE LET k == IF requested_clusters = 0
                         THEN determine_optimal_k(Len(ids))
                         ELSE requested_clusters
              IN  /\ cv_k' = k
                  /\ IF FitRaises(k, Len(ids), vectors_bad)
                       THEN /\ cv_primary_failed' = TRUE
                            /\ CVReturn(<<>>, 0, "clustering_failed", {"primary"})
                            /\ UNCHANGED <<seed_k, seed_labels>>
                       ELSE /\ cv_primary_failed' = FALSE
                            /\ \E labels \in SeededLabelings(Len(ids), k) :
                                 /\ SeededFit(k, labels)
                                 /\ CVReturn(ClustersFrom(ids, labels, k, 0, FALSE),
                                             vector_dim, "none", {})
    /\ UNCHANGED <<cv_optimal, cv_retries, cv_call, first_clusters>>
    /\ UNCHANGED cvInput

\* python_direct_clustering.cluster_vectors.
DirectCluster ==
    /\ cv_pc = "start"
    /\ cv_impl = "direct"
    /\ IF Len(ids) < 2
         THEN /\ CVReturn(<<>>, 0, "none", {})
              /\ UNCHANGED <<cv_k, cv_primary_failed, seed_k, seed_labels>>
         ELSE LET k == DirectClusters(Len(ids))
              IN  /\ cv_k' = k
                  /\ IF FitRaises(k, Len(ids), vectors_bad)
                       THEN /\ cv_primary_failed' = TRUE
                            /\ CVReturn(<<>>, 0, "none", {})
                            /\ UNCHANGED <<seed_k, seed_labels>>
                       ELSE /\ cv_primary_failed' = FALSE
                            /\ \E labels \in SeededLabelings(Len(ids), k) :
                                 /\ SeededFit(k, labels)
                                 /\ CVReturn(ClustersFrom(ids, labels, k, 0, FALSE),
                                             vector_dim, "none", {})
    /\ UNCHANGED <<cv_optimal, cv_retries, cv_call, first_clusters>>
    /\ UNCHANGED cvInput

\* The caller makes the same call again, with the same input and
\* configuration.
CallAgain ==
    /\ cv_pc = "done"
    /\ cv_call = 1
    /\ cv_call' = 2
    /\ first_clusters' = cv_clusters
    /\ cv_pc' = "start"
    /\ cv_k' = 0
    /\ cv_optimal' = 0
    /\ cv_primary_failed' = FALSE
    /\ cv_retries' = 0
    /\ cv_clusters' = <<>>
    /\ cv_center_dim' = 0
    /\ cv_error' = "none"
    /\ cv_causes' = {}
    /\ UNCHANGED <<seed_k, seed_labels>>
    /\ UNCHANGED cvInput

\* ------------------------------------------------------------------------
\* LearningMemoryService.cluster_memories (learning_memory.py): keyword
\* seeded topics and the merge pass over them
\* ------------------------------------------------------------------------

\* Largest number of memory records in one cluster_memories call.
MaxMemories == 3

\* Number of times the merge pass is run in a row (on its own output).
MaxPasses == 2

\* The candidate topic keywords (all_keywords); their lengths differ and tie.
Keywords == {"ai", "code", "math"}

VARIABLES
    mg_pc,            \* "seed", "merge", "done"
    memories,         \* memories[i]: the keywords the content of record i holds
    long_memory,      \* 1 when record 1 has 250 words (0: all have 2 words)
    topic_order,      \* list(all_keywords)[:20]: the seed keywords, in order
    clusters,         \* the clusters dict, as its items in insertion order
    cluster_items,    \* list(clusters.items()) taken before the merge loop
    merged_clusters,  \* keys of the merged_clusters dict
    mg_i,             \* index of the outer merge loop (1-based)
    survivors,        \* what the merge loop wrote: one record per topic1
    mg_pass,          \* number of the merge pass that is running
    first_output      \* the clusters the first pass returned

mgVars == <<mg_pc, memories, long_memory, topic_order, clusters, cluster_items,
            merged_clusters, mg_i, survivors, mg_pass, first_output>>

mgInput == <<memories, long_memory, topic_order>>

\* len(content.split()) of record m.
WordCount(m, lng) == IF m = lng THEN 250 ELSE 2

\* keyword_match = content.count(keyword) / max(1, len(content.split())),
\* kept in thousandths; a keyword occurs once in a content that holds it.
KeywordMatch(mems, lng, m, kw) ==
    IF kw \in mems[m] THEN 1000 \div Max(1, WordCount(m, lng)) ELSE 0

\* relevance > 0.005
Related(relevance) == relevance > 5

RECURSIVE SumRelevance(_, _, _, _)
SumRelevance(mems, lng, kw, m) ==
    IF m > Len(mems) THEN 0
    ELSE KeywordMatch(mems, lng, m, kw) + SumRelevance(mems, lng, kw, m + 1)

\* The cluster the seeding loop builds for one keyword; memory ids are the
\* record indices.
SeedCluster(mems, lng, kw) ==
    [topic |-> kw,
     memory_ids |-> {m \in 1..Len(mems) : Related(KeywordMatch(mems, lng, m, kw))},
     relevance |-> SumRelevance(mems, lng, kw, 1),
     keywords |-> {kw}]

\* "for keyword in list(all_keywords)[:20]": a cluster is saved for each
\* keyword with at least one related memory.
RECURSIVE SeedClusters(_, _, _, _)
SeedClusters(mems, lng, order, t) ==
    IF t > Len(order) THEN <<>>
    ELSE LET c == SeedCluster(mems, lng, order[t])
         IN  (IF Cardinality(c.memory_ids) >= 1 THEN <<c>> ELSE <<>>)
             \o SeedClusters(mems, lng, order, t + 1)

\* jaccard > 0.5 for len(a & b) / len(a | b).
JaccardAbove(a, b) == 2 * Cardinality(a \cap b) > Cardinality(a \cup b)

\* The inner loop "for j, (topic2, data2) in enumerate(cluster_items[i+1:])":
\* acc holds merged_set, merged_keywords, merged_relevance and the topics
\* marked as merged.
RECURSIVE Absorb(_, _, _, _)
Absorb(items, marked, j, acc) ==
    IF j > Len(items) THEN acc
    ELSE LET data2 == items[j]
         IN  IF data2.topic \notin marked
                /\ acc.memory_ids # {} /\ data2.memory_ids # {}
                /\ JaccardAbove(acc.memory_ids, data2.memory_ids)
               THEN Absorb(items, marked, j + 1,
                           [memory_ids |-> acc.memory_ids \cup data2.memory_ids,
                            keywords |-> acc.keywords \cup data2.keywords,
                            relevance |-> acc.relevance + data2.relevance,
                            absorbed |-> acc.absorbed \cup {data2.topic}])
               ELSE Absorb(items, marked, j + 1, acc)

\* keywords_list[0] of sorted(list(merged_keywords), key=len, reverse=True):
\* a longest keyword, any of them on a tie (set order).  mapped_keywords is
\* always empty: topic_mappings is no module global.
MergedNames(kws) == {k \in kws : \A o \in kws : Len(o) <= Len(k)}

\* clusters[name] = data: replaces the value of an existing key in place,
\* appends a new key.
DictSet(cl, name, data) ==
    IF \E x \in 1..Len(cl) : cl[x].topic = name
      THEN [x \in 1..Len(cl) |-> IF cl[x].topic = name THEN data ELSE cl[x]]
      ELSE Append(cl, data)

\* Mutant of RemoveMerged: the merged topics are left in the dict.
RemoveNothing(cl, marked) == cl

\* "for topic in list(merged_clusters.keys()): if topic in clusters:
\*  del clusters[topic]".
RemoveMerged(cl, marked) == SelectSeq(cl, LAMBDA c : c.topic \notin marked)

\* The distinct orders in which the keywords of a set can be listed.
Orders(S) ==
    UNION {{f \in [1..n -> S] : \A a, b \in 1..n : a # b => f[a] # f[b]} :
             n \in 0..Cardinality(S)}

InitMerge ==
    /\ mg_pc = "seed"
    /\ \E n \in 0..MaxMemories : memories \in [1..n -> SUBSET Keywords]
    /\ long_memory \in 0..Min(1, Len(memories))
    /\ topic_order \in Orders(Keywords)
    /\ clusters = <<>>
    /\ cluster_items = <<>>
    /\ merged_clusters = {}
    /\ mg_i = 0
    /\ survivors = <<>>
    /\ mg_pass = 0
    /\ first_output = <<>>

IdleMerge ==
    /\ mg_pc = "idle"
    /\ memories = <<>>
    /\ long_memory = 0
    /\ topic_order = <<>>
    /\ clusters = <<>>
    /\ cluster_items = <<>>
    /\ merged_clusters = {}
    /\ mg_i = 0
    /\ survivors = <<>>
    /\ mg_pass = 0
    /\ first_output = <<>>

\* cluster_memories up to the merge loop: the early return on no memories
\* and the seeding of one candidate cluster per keyword.
Seed ==
    /\ mg_pc = "seed"
    /\ IF Len(memories) = 0
         THEN /\ mg_pc' = "done"
              /\ mg_pass' = MaxPasses
              /\ UNCHANGED <<clusters, cluster_items, mg_i>>
         ELSE /\ mg_pc' = "merge"
              /\ mg_pass' = 1
              /\ clusters' = SeedClusters(memories, long_memory, topic_order, 1)
              /\ cluster_items' = clusters'
              /\ mg_i' = 1
    /\ UNCHANGED <<merged_clusters, survivors, first_output>>
    /\ UNCHANGED mgInput

\* One iteration of "for i, (topic1, data1) in enumerate(cluster_items)".
MergeStep ==
    /\ mg_pc = "merge"
    /\ mg_i <= Len(cluster_items)
    /\ LET data1 == cluster_items[mg_i]
       IN  IF data1.topic \in merged_clusters
             THEN UNCHANGED <<clusters, merged_clusters, survivors>>
             ELSE LET acc == Absorb(cluster_items, merged_clusters, mg_i + 1,
                                    [memory_ids |-> data1.memory_ids,
                                     keywords |-> data1.keywords,
                                     relevance |-> data1.relevance,
                                     absorbed |-> {}])
                  IN  \E merged_name \in MergedNames(acc.keywords) :
                        LET data == [topic |-> merged_name,
                                     memory_ids |-> acc.memory_ids,
                                     relevance |-> acc.relevance,
                                     keywords |-> acc.keywords]
                        IN  /\ merged_clusters' =
                                 merged_clusters \cup acc.absorbed \cup {data1.topic}
                            /\ clusters' = DictSet(clusters, merged_name, data)
                            /\ survivors' = Append(survivors, data)
    /\ mg_i' = mg_i + 1
    /\ UNCHANGED <<mg_pc, cluster_items, mg_pass, first_output>>
    /\ UNCHANGED mgInput

\* The removal of the merged topics and the return of clusters.
MergeReturn ==
    /\ mg_pc = "merge"
    /\ mg_i > Len(cluster_items)
    /\ clusters' = RemoveMerged(clusters, merged_clusters)
    /\ mg_pc' = "done"
    /\ first_output' = IF mg_pass = 1 THEN clusters' ELSE first_output
    /\ UNCHANGED <<cluster_items, merged_clusters, mg_i, survivors, mg_pass>>
    /\ UNCHANGED mgInput

\* The merge pass run again on the clusters it returned.
MergeAgain ==
    /\ mg_pc = "done"
    /\ mg_pass < MaxPasses
    /\ mg_pc' = "merge"
    /\ mg_pass' = mg_pass + 1
    /\ cluster_items' = clusters
    /\ merged_clusters' = {}
    /\ survivors' = <<>>
    /\ mg_i' = 1
    /\ UNCHANGED <<clusters, first_output>>
    /\ UNCHANGED mgInput

\* ------------------------------------------------------------------------
\* LearningMemoryService.retrieve_similar_memories and cosine_similarity
\* (learning_memory.py)
\* ------------------------------------------------------------------------

\* Largest number of stored memory files of the user.
MaxStored == 2

\* Largest limit a caller passes.
MaxLimit == 2

\* The words of queries and contents, as lowercase whitespace tokens.
WordSets == {{}, {"ai"}, {"ai", "code"}}

\* The embedding field of a stored record: missing, a number instead of a
\* list (len() of its array raises), a list of floats, or a list that holds
\* an entry that is no number ("mixed": np.dot raises on it; vec gives its
\* length).
Embeddings ==
    {[kind |-> "absent", vec |-> <<>>], [kind |-> "scalar", vec |-> <<>>],
     [kind |-> "mixed", vec |-> <<1, 0>>]}
    \cup {[kind |-> "list", vec |-> v] : v \in {<<>>, <<1>>, <<1, 0>>, <<1, 1>>, <<0, 0>>}}

\* The embedding of the query; <<>> when the embedding service returns none.
QueryVectors == {<<>>, <<1>>, <<1, 1>>}

VARIABLES
    rk_pc,            \* "start", "score", "done"
    query_vector,
    query_words,      \* set(query.lower().split())
    stored,           \* the loaded memories: [id, embedding, words]
    limit,
    rk_i,             \* index of the scoring loop (1-based)
    scored_memories,  \* the (memory, similarity) pairs, by memory id
    rk_result         \* the ids of the returned memories

rkVars == <<rk_pc, query_vector, query_words, stored, limit, rk_i,
            scored_memories, rk_result>>

rkInput == <<query_vector, query_words, stored, limit>>

RECURSIVE Dot(_, _, _)
Dot(a, b, i) == IF i > Len(a) THEN 0 ELSE a[i] * b[i] + Dot(a, b, i + 1)

\* Mutant of CosineSimilarity: the zero-norm test is dropped, and the
\* division of 0.0 by 0.0 gives not-a-number, written 999.
CosineSimilarityUnguarded(vec1, vec2) ==
    IF Len(vec1) # Len(vec2) THEN 0
    ELSE LET dot_product == Dot(vec1, vec2, 1)
             norms == Dot(vec1, vec1, 1) * Dot(vec2, vec2, 1)
             magnitude == SqrtFrom((10000 * dot_product * dot_product) \div Max(1, norms), 0)
         IN  IF norms = 0 THEN 999
             ELSE IF dot_product < 0 THEN -magnitude ELSE magnitude

\* cosine_similarity, in hundredths: 0 on a dimension mismatch or a zero
\* norm, else dot / (norm1 * norm2).  An exception of the computation is
\* caught inside cosine_similarity, which then returns 0.0 (see Similarity).
CosineSimilarity(vec1, vec2) ==
    IF Len(vec1) # Len(vec2) THEN 0
    ELSE LET dot_product == Dot(vec1, vec2, 1)
             norms == Dot(vec1, vec1, 1) * Dot(vec2, vec2, 1)
             magnitude == SqrtFrom((10000 * dot_product * dot_product) \div Max(1, norms), 0)
         IN  IF norms = 0 THEN 0
             ELSE IF dot_product < 0 THEN -magnitude ELSE magnitude

\* The word-overlap score of the dimension-mismatch branch, in hundredths:
\* len(intersection) / max(1, len(union)), 0.0 when either word set is empty.
LexicalSimilarity(qwords, mwords) ==
    IF qwords = {} \/ mwords = {} THEN 0
    ELSE (100 * Cardinality(qwords \cap mwords))
           \div Max(1, Cardinality(qwords \cup mwords))

\* Mutant of HasEmbedding: the embedding test is dropped.
HasEmbeddingAlways(memory) == TRUE

\* The test that lets a memory into the scoring:
\* not ("embedding" not in memory or not memory["embedding"]).
HasEmbedding(memory) ==
    memory.embedding.kind \in {"scalar", "mixed"}
    \/ (memory.embedding.kind = "list" /\ memory.embedding.vec # <<>>)

\* Mutant of ScoringRaises: the per-memory except keeps the memory.
ScoringNeverRaises(memory) == FALSE

\* The body of the per-memory try raises outside cosine_similarity (len() of
\* a 0-d array): the except at the end of the loop body skips the memory.
ScoringRaises(memory) == memory.embedding.kind = "scalar"

\* Mutant of Similarity: no word-overlap substitute on a dimension mismatch.
SimilarityCosineOnly(qvec, qwords, memory) ==
    IF memory.embedding.kind = "mixed" THEN 0
    ELSE CosineSimilarity(qvec, memory.embedding.vec)

\* The similarity the scoring loop gives a memory it scores.
Similarity(qvec, qwords, memory) ==
    IF Len(memory.embedding.vec) # Len(qvec)
      THEN IF memory.words # {} THEN LexicalSimilarity(qwords, memory.words) ELSE 0
      ELSE IF memory.embedding.kind = "mixed" THEN 0
      ELSE CosineSimilarity(qvec, memory.embedding.vec)

\* Mutant of SortDescending: descending, but equal scores change places.
RECURSIVE SortDescendingUnstable(_)
SortDescendingUnstable(pairs) ==
    IF pairs = <<>> THEN <<>>
    ELSE LET first == pairs[1]
             rest == SortDescendingUnstable(Tail(pairs))
             before == SelectSeq(rest, LAMBDA x : x.similarity >= first.similarity)
             after == SelectSeq(rest, LAMBDA x : x.similarity < first.similarity)
         IN  before \o <<first>> \o after

\* list.sort(key=similarity, reverse=True): descending and stable.
RECURSIVE SortDescending(_)
SortDescending(pairs) ==
    IF pairs = <<>> THEN <<>>
    ELSE LET first == pairs[1]
             rest == SortDescending(Tail(pairs))
             before == SelectSeq(rest, LAMBDA x : x.similarity > first.similarity)
             after == SelectSeq(rest, LAMBDA x : x.similarity <= first.similarity)
         IN  before \o <<first>> \o after

\* scored_memories[:limit] for limit >= 0.
Truncate(pairs, n) == SubSeq(pairs, 1, Min(n, Len(pairs)))

InitRank ==
    /\ rk_pc = "start"
    /\ query_vector \in QueryVectors
    /\ query_words \in WordSets
    /\ \E n \in 0..MaxStored :
         stored \in {f \in [1..n -> [id : 1..n, embedding : Embeddings, words : WordSets]] :
                       \A x \in 1..n : f[x].id = x}
    /\ limit \in 0..MaxLimit
    /\ rk_i = 0
    /\ scored_memories = <<>>
    /\ rk_result = <<>>

IdleRank ==
    /\ rk_pc = "idle"
    /\ query_vector = <<>>
    /\ query_words = {}
    /\ stored = <<>>
    /\ limit = 0
    /\ rk_i = 0
    /\ scored_memories = <<>>
    /\ rk_result = <<>>

\* The embedding of the query: without one the retrieval returns [].
RankStart ==
    /\ rk_pc = "start"
    /\ IF query_vector = <<>>
         THEN rk_pc' = "done" /\ rk_i' = rk_i
         ELSE rk_pc' = "score" /\ rk_i' = 1
    /\ UNCHANGED <<scored_memories, rk_result>>
    /\ UNCHANGED rkInput

\* One iteration of "for memory in memories": skip, score, or skip on a
\* raise.
RankScore ==
    /\ rk_pc = "score"
    /\ rk_i <= Len(stored)
    /\ LET memory == stored[rk_i]
       IN  scored_memories' =
             IF HasEmbedding(memory) /\ ~ScoringRaises(memory)
               THEN Append(scored_memories,
                           [id |-> memory.id,
                            similarity |-> Similarity(query_vector, query_words, memory)])
               ELSE scored_memories
    /\ rk_i' = rk_i + 1
    /\ UNCHANGED <<rk_pc, rk_result>>
    /\ UNCHANGED rkInput

\* The sort, the truncation to limit and the return.
RankReturn ==
    /\ rk_pc = "score"
    /\ rk_i > Len(stored)
    /\ scored_memories' = SortDescending(scored_memories)
    /\ rk_result' = [x \in 1..Len(Truncate(scored_memories', limit)) |->
                       scored_memories'[x].id]
    /\ rk_pc' = "done"
    /\ UNCHANGED <<rk_i>>
    /\ UNCHANGED rkInput

\* ------------------------------------------------------------------------
\* time_based_clustering (learning_memory_service.py)
\* ------------------------------------------------------------------------

\* Largest number of memories handed to time_based_clustering.
MaxRecords == 110

\* Largest number of memories whose timestamps are chosen freely.
MaxFreeRecords == 3

max_time_buckets == 10

min_time_buckets == 2

time_bucket_divisor == 10

\* The orders in which the timestamps of a longer input are laid out.
TimestampPatterns == {"ascending", "descending", "missing", "alternating"}

VARIABLES
    tb_pc,            \* "sort", "bucket", "emit", "done", "idle"
    tb_memories,      \* the input list: [id, timestamp]
    tb_fault,         \* what a malformed record makes raise: "none", "sort", "emit"
    tb_embeddings,    \* len(m['embedding']) by memory id, 0 without embedding
    sorted_memories,
    time_buckets,
    tb_i,             \* index of the bucket loop (1-based)
    tb_clusters,      \* the clusters dict, in insertion order: member id lists
    tb_centroids,     \* len(centroid) of each cluster, 0 for the empty centroid
    tb_fell_back      \* the except branch built the result

tbVars == <<tb_pc, tb_memories, tb_fault, tb_embeddings, sorted_memories,
            time_buckets, tb_i, tb_clusters, tb_centroids, tb_fell_back>>

tbInput == <<tb_memories, tb_fault, tb_embeddings>>

\* m.get('timestamp', '2020-01-01T00:00:00Z') of the i-th of n memories: a
\* memory without timestamp sorts as the default, the earliest value (0).
PatternTimestamp(pattern, i, n) ==
    CASE pattern = "ascending" -> i
      [] pattern = "descending" -> n + 1 - i
      [] pattern = "missing" -> 0
      [] pattern = "alternating" -> i % 2

\* Which memories of a longer input carry an embedding.
EmbeddingPatterns == {"none", "all", "first"}

PatternEmbeddings(pattern, n) ==
    [i \in 1..n |-> IF pattern = "all" \/ (pattern = "first" /\ i = 1) THEN 1 ELSE 0]

PatternMemories(pattern, n) ==
    [i \in 1..n |-> [id |-> i, timestamp |-> PatternTimestamp(pattern, i, n)]]

\* The place of each memory in the stable ascending order: it counts the
\* memories of an earlier timestamp and those of the same timestamp that come
\* no later in the input.
SortedPlace(mems) ==
    [i \in 1..Len(mems) |->
       Cardinality({j \in 1..Len(mems) :
                      \/ mems[j].timestamp < mems[i].timestamp
                      \/ /\ mems[j].timestamp = mems[i].timestamp
                         /\ j <= i})]

\* The memories laid out by place.
RECURSIVE Placed(_, _, _, _)
Placed(mems, place, i, out) ==
    IF i > Len(mems) THEN out
    ELSE Placed(mems, place, i + 1, [out EXCEPT ![place[i]] = mems[i]])

\* sorted(memories, key=timestamp): ascending and stable.
SortByTimestamp(mems) == Placed(mems, SortedPlace(mems), 1, mems)

\* n_buckets = min(10, max(2, len(sorted_memories) // 10)).
BucketCount(n) == Min(max_time_buckets, Max(min_time_buckets, n \div time_bucket_divisor))

\* bucket_size = max(1, len(sorted_memories) // n_buckets).
BucketSize(n) == Max(1, n \div BucketCount(n))

\* Mutant of TimeBuckets: the memories after the last full bucket are lost.
TimeBucketsNoRemainder(mems) ==
    LET size == BucketSize(Len(mems))
    IN  [b \in 1..(Len(mems) \div size) |-> SubSeq(mems, (b - 1) * size + 1, b * size)]

\* "for i in range(0, len(sorted_memories), bucket_size):
\*  time_buckets.append(sorted_memories[i:i + bucket_size])".
TimeBuckets(mems) ==
    LET size == BucketSize(Len(mems))
        count == (Len(mems) + size - 1) \div size
    IN  [b \in 1..count |->
           SubSeq(mems, (b - 1) * size + 1, Min(b * size, Len(mems)))]

\* memory_ids of one bucket.
MemoryIds(bucket) == [x \in 1..Len(bucket) |-> bucket[x].id]

\* Mutant of CentroidLength: no centroid is computed.
CentroidLengthEmpty(bucket, embeddings) == 0

\* The length of the centroid of a bucket: the embeddings that are present
\* and not empty, cut down to those of the length of the first, are
\* averaged; without any the centroid stays [].
CentroidLength(bucket, embeddings) ==
    LET valid_embeddings == SelectSeq([x \in 1..Len(bucket) |-> embeddings[bucket[x].id]],
                                      LAMBDA v : v > 0)
    IN  IF valid_embeddings = <<>> THEN 0 ELSE valid_embeddings[1]

\* Mutant of FallbackClusters: the last resort returns no cluster.
FallbackEmpty(mems) == <<>>

\* The except branch: one cluster "cluster_all_..." with the ids of all
\* memories, in input order.
FallbackClusters(mems) == <<MemoryIds(mems)>>

InitTime ==
    /\ tb_pc = "sort"
    /\ tb_memories \in
         {PatternMemories(p, n) : p \in TimestampPatterns, n \in 0..MaxRecords}
         \cup UNION {{f \in [1..n -> [id : 1..n, timestamp : 0..2]] :
                        \A x \in 1..n : f[x].id = x} : n \in 0..MaxFreeRecords}
    /\ tb_fault \in {"none", "sort", "emit"}
    /\ tb_embeddings \in
         IF Len(tb_memories) <= MaxFreeRecords
           THEN [1..Len(tb_memories) -> 0..2]
           ELSE {PatternEmbeddings(e, Len(tb_memories)) : e \in EmbeddingPatterns}
    /\ sorted_memories = <<>>
    /\ time_buckets = <<>>
    /\ tb_i = 0
    /\ tb_clusters = <<>>
    /\ tb_centroids = <<>>
    /\ tb_fell_back = FALSE

IdleTime ==
    /\ tb_pc = "idle"
    /\ tb_memories = <<>>
    /\ tb_fault = "none"
    /\ tb_embeddings = <<>>
    /\ sorted_memories = <<>>
    /\ time_buckets = <<>>
    /\ tb_i = 0
    /\ tb_clusters = <<>>
    /\ tb_centroids = <<>>
    /\ tb_fell_back = FALSE

\* An exception anywhere in the try: the except branch returns the single
\* cluster of all memories.
TimeFallback ==
    /\ tb_clusters' = FallbackClusters(tb_memories)
    /\ tb_centroids' = [c \in 1..Len(FallbackClusters(tb_memories)) |-> 0]
    /\ tb_fell_back' = TRUE
    /\ tb_pc' = "done"
    /\ UNCHANGED <<sorted_memories, time_buckets, tb_i>>
    /\ UNCHANGED tbInput

\* sorted() raises when it compares timestamps of different types, which
\* takes two memories.
TimeSort ==
    /\ tb_pc = "sort"
    /\ IF tb_fault = "sort" /\ Len(tb_memories) >= 2
         THEN TimeFallback
         ELSE /\ sorted_memories' = SortByTimestamp(tb_memories)
              /\ tb_pc' = "bucket"
              /\ UNCHANGED <<time_buckets, tb_i, tb_clusters, tb_centroids,
                             tb_fell_back>>
              /\ UNCHANGED tbInput

TimeBucket ==
    /\ tb_pc = "bucket"
    /\ time_buckets' = TimeBuckets(sorted_memories)
    /\ tb_i' = 1
    /\ tb_pc' = "emit"
    /\ UNCHANGED <<sorted_memories, tb_clusters, tb_centroids, tb_fell_back>>
    /\ UNCHANGED tbInput

\* One iteration of "for i, bucket in enumerate(time_buckets)": an empty
\* bucket is passed over, a malformed field of a memory raises, otherwise
\* the cluster "cluster_time_{i}_..." is stored.
TimeEmit ==
    /\ tb_pc = "emit"
    /\ tb_i <= Len(time_buckets)
    /\ \/ /\ tb_fault = "emit"
          /\ TimeFallback
       \/ /\ tb_clusters' = IF time_buckets[tb_i] = <<>>
                               THEN tb_clusters
                               ELSE Append(tb_clusters, MemoryIds(time_buckets[tb_i]))
          /\ tb_centroids' = IF time_buckets[tb_i] = <<>>
                                THEN tb_centroids
                                ELSE Append(tb_centroids,
                                            CentroidLength(time_buckets[tb_i], tb_embeddings))
          /\ tb_i' = tb_i + 1
          /\ UNCHANGED <<tb_pc, sorted_memories, time_buckets, tb_fell_back>>
          /\ UNCHANGED tbInput

TimeReturn ==
    /\ tb_pc = "emit"
    /\ tb_i > Len(time_buckets)
    /\ tb_pc' = "done"
    /\ UNCHANGED <<sorted_memories, time_buckets, tb_i, tb_clusters, tb_centroids,
                   tb_fell_back>>
    /\ UNCHANGED tbInput

\* ------------------------------------------------------------------------
\* LearningMemoryService.cluster_memories, the preparation of the records
\* before the topics are seeded (learning_memory.py)
\* ------------------------------------------------------------------------

\* Largest number of memory records in one preparation.
MaxPrepared == 2

\* What the "embedding" of a record can be: missing or empty, a vector whose
\* first ten values are zero, a usable vector of the default length, a usable
\* vector of another length.  "fresh" is a vector the embedding service
\* returned during the call.
EmbeddingStates == {"absent", "zero", "default_dim", "other_dim"}

\* The memory records a caller can pass: the embedding, whether the record
\* has keywords of its own, whether it has content, and the state of the
\* record's file {memory_dir}/{user_id}/{id}.json.
PreparedRecords ==
    [embedding : EmbeddingStates, keywords : {"absent", "own"},
     content : BOOLEAN, file : {"missing", "stored"}]

VARIABLES
    prep_pc,                  \* "check", "embed", "keywords", "done", "idle"
    given_memories,           \* the records and files as they were at the call
    prep_memories,            \* memories: the caller's record objects, and files
    embedding_service_ok,     \* get_embeddings answers, one vector per text
    expected_dim,
    memories_need_embedding,  \* the indices collected, 1-based
    prep_i                    \* index of the keyword loop, 1-based

prVars == <<prep_pc, given_memories, prep_memories, embedding_service_ok,
            expected_dim, memories_need_embedding, prep_i>>

prInput == <<given_memories, embedding_service_ok>>

\* "embedding and not all(v == 0 for v in embedding[:10])"
UsableEmbedding(memory) == memory.embedding \in {"default_dim", "other_dim"}

\* expected_dim: the length of the first usable embedding, the default
\* length without one.
RECURSIVE ExpectedDim(_, _)
ExpectedDim(mems, i) ==
    IF i > Len(mems) THEN "default_dim"
    ELSE IF UsableEmbedding(mems[i]) THEN mems[i].embedding
    ELSE ExpectedDim(mems, i + 1)

\* Mutant of NeedsEmbedding: every record is embedded anew.
NeedsEmbeddingAlways(memory, dim) == TRUE

\* The test that puts a record on memories_need_embedding: empty, of another
\* length than expected_dim, or zero in its first ten values.
NeedsEmbedding(memory, dim) ==
    \/ memory.embedding = "absent"
    \/ memory.embedding # dim
    \/ memory.embedding = "zero"

\* The indices i, i+1, ... of the records that need an embedding.
RECURSIVE NeedFrom(_, _, _)
NeedFrom(mems, dim, i) ==
    IF i > Len(mems) THEN <<>>
    ELSE (IF NeedsEmbedding(mems[i], dim) THEN <<i>> ELSE <<>>)
         \o NeedFrom(mems, dim, i + 1)

\* memories[idx]["embedding"] = embedding, and the record's file written
\* again with the record when it exists.
Reembedded(memory) ==
    [memory EXCEPT !.embedding = "fresh",
                   !.file = IF memory.file = "missing" THEN "missing"
                            ELSE "rewritten"]

\* memory["keywords"] = keywords: the record's own keywords when it has
\* some, the extracted ones otherwise.
WithKeywords(memory) ==
    [memory EXCEPT !.keywords = IF memory.keywords = "own" THEN "own"
                                ELSE "extracted"]

InitPrepare ==
    /\ prep_pc = "check"
    /\ given_memories \in UNION {[1..n -> PreparedRecords] : n \in 0..MaxPrepared}
    /\ prep_memories = given_memories
    /\ embedding_service_ok \in BOOLEAN
    /\ expected_dim = "default_dim"
    /\ memories_need_embedding = <<>>
    /\ prep_i = 0

IdlePrepare ==
    /\ prep_pc = "idle"
    /\ given_memories = <<>>
    /\ prep_memories = <<>>
    /\ embedding_service_ok = TRUE
    /\ expected_dim = "default_dim"
    /\ memories_need_embedding = <<>>
    /\ prep_i = 0

\* "if not memories: return {}", then the two loops that find expected_dim
\* and the records to embed.
PrepCheck ==
    /\ prep_pc = "check"
    /\ IF prep_memories = <<>>
         THEN /\ prep_pc' = "done"
              /\ UNCHANGED <<expected_dim, memories_need_embedding>>
         ELSE /\ expected_dim' = ExpectedDim(prep_memories, 1)
              /\ memories_need_embedding' =
                   NeedFrom(prep_memories, ExpectedDim(prep_memories, 1), 1)
              /\ prep_pc' = "embed"
    /\ UNCHANGED <<prep_memories, prep_i>>
    /\ UNCHANGED prInput

\* "if memories_need_embedding:" the service is asked for the vectors and
\* each listed record and its file are updated; a service that raises is
\* caught and leaves the records as they are.
PrepEmbed ==
    /\ prep_pc = "embed"
    /\ prep_memories' =
         IF memories_need_embedding # <<>> /\ embedding_service_ok
           THEN [x \in 1..Len(prep_memories) |->
                   IF \E j \in 1..Len(memories_need_embedding) :
                        memories_need_embedding[j] = x
                     THEN Reembedded(prep_memories[x])
                     ELSE prep_memories[x]]
           ELSE prep_memories
    /\ prep_i' = 1
    /\ prep_pc' = "keywords"
    /\ UNCHANGED <<expected_dim, memories_need_embedding>>
    /\ UNCHANGED prInput

\* One iteration of "for i, memory in enumerate(memories)": a record
\* without content is passed over, any other gets its keywords assigned.
PrepKeywords ==
    /\ prep_pc = "keywords"
    /\ prep_i <= Len(prep_memories)
    /\ prep_memories' =
         IF prep_memories[prep_i].content
           THEN [prep_memories EXCEPT ![prep_i] = WithKeywords(prep_memories[prep_i])]
           ELSE prep_memories
    /\ prep_i' = prep_i + 1
    /\ UNCHANGED <<prep_pc, expected_dim, memories_need_embedding>>
    /\ UNCHANGED prInput

\* The keyword loop is over: the topics are seeded from the records as they
\* are now.
PrepSeeded ==
    /\ prep_pc = "keywords"
    /\ prep_i > Len(prep_memories)
    /\ prep_pc' = "done"
    /\ UNCHANGED <<prep_memories, expected_dim, memories_need_embedding, prep_i>>
    /\ UNCHANGED prInput

\* ------------------------------------------------------------------------
\* api_cluster and its cluster_vectors (app.py)
\* ------------------------------------------------------------------------

\* What request.json can be: "empty" is a missing body, an empty list or a
\* value that is not a list; "not_objects" a list whose items are not
\* objects; "missing_field" a list with an item without 'id' or 'vector';
\* "records" a list of {id, vector} items.
RequestBodies == {"empty", "not_objects", "missing_field", "records"}

VARIABLES
    ap_pc,         \* "request", "primary", "retry", "done", "idle"
    ap_data,       \* the kind of request.json
    ap_ids,        \* the ids of the items, in request order
    ap_bad,        \* the vectors make np.array or every fit raise (ragged, NaN)
    ap_outcome,    \* "none", "rejected", "clustered", "failed"
    ap_fits,       \* the k-means fits that returned labels
    ap_status,     \* the HTTP status of the response, 0 before it
    ap_body,       \* "none", "error" for {"error": ...}, "clusters"
    ap_clusters    \* body["centroids"]: the points (ids) of each cluster

apVars == <<ap_pc, ap_data, ap_ids, ap_bad, ap_outcome, ap_fits, ap_status,
            ap_body, ap_clusters>>

apInput == <<ap_data, ap_ids, ap_bad>>

\* What determine_optimal_clusters of app.py can hand back for n vectors: a
\* cluster count, or 0 when it raises (PCA or a trial fit).
AppSelectorOutcomes(n) ==
    IF n < 20 THEN {Max(2, Min(5, n \div 2))}
    ELSE IF n >= 400 THEN {Min(40, Max(30, n \div 50))}
    ELSE {0, Min(30, Max(5, IntSqrtHalf(n)))}
         \cup {c \in 3..Min(40, n \div 5) :
                 (c - 3) % Max(1, (Min(40, n \div 5) - 3) \div 10) = 0}

\* Mutant of ApiStatus: every response is sent with the default status.
ApiStatusDefault(outcome) == 200

\* The status api_cluster sends: 400 with the two validation errors, 500
\* from the except branch, the default 200 with jsonify(result).
ApiStatus(outcome) ==
    IF outcome = "rejected" THEN 400
    ELSE IF outcome = "failed" THEN 500
    ELSE 200

\* A return of api_cluster.
ApiReturn(outcome, centroids) ==
    /\ ap_pc' = "done"
    /\ ap_outcome' = outcome
    /\ ap_status' = ApiStatus(outcome)
    /\ ap_body' = IF outcome = "clustered" THEN "clusters" ELSE "error"
    /\ ap_clusters' = centroids

InitApi ==
    /\ ap_pc = "request"
    /\ ap_data \in RequestBodies
    /\ IF ap_data = "records"
         THEN /\ ap_ids \in IdSequences(MaxVectors) \ {<<>>}
              /\ ap_bad \in BOOLEAN
         ELSE /\ ap_ids = <<>>
              /\ ap_bad = FALSE
    /\ ap_outcome = "none"
    /\ ap_fits = 0
    /\ ap_status = 0
    /\ ap_body = "none"
    /\ ap_clusters = <<>>

IdleApi ==
    /\ ap_pc = "idle"
    /\ ap_data = "empty"
    /\ ap_ids = <<>>
    /\ ap_bad = FALSE
    /\ ap_outcome = "none"
    /\ ap_fits = 0
    /\ ap_status = 0
    /\ ap_body = "none"
    /\ ap_clusters = <<>>

\* api_cluster up to the call of cluster_vectors: the two validations answer
\* 400, an item that is not an object raises into the except branch.
ApiRequest ==
    /\ ap_pc = "request"
    /\ IF ap_data \in {"empty", "missing_field"}
         THEN ApiReturn("rejected", <<>>)
         ELSE IF ap_data = "not_objects"
           THEN ApiReturn("failed", <<>>)
           ELSE /\ ap_pc' = "primary"
                /\ UNCHANGED <<ap_outcome, ap_status, ap_body, ap_clusters>>
    /\ UNCHANGED ap_fits
    /\ UNCHANGED apInput

\* cluster_vectors of app.py, the body of the outer try, and jsonify(result)
\* when it returns.
ApiPrimary ==
    /\ ap_pc = "primary"
    /\ \E k \in AppSelectorOutcomes(Len(ap_ids)) :
         IF FitRaises(k, Len(ap_ids), ap_bad)
           THEN /\ ap_pc' = "retry"
                /\ UNCHANGED <<ap_outcome, ap_fits, ap_status, ap_body,
                               ap_clusters>>
           ELSE \E labels \in Labelings(Len(ap_ids), k) :
                  /\ ApiReturn("clustered", ClustersFrom(ap_ids, labels, k, 0, TRUE))
                  /\ ap_fits' = ap_fits + 1
    /\ UNCHANGED apInput

\* The except branch of cluster_vectors: min(5, len(vectors)) clusters
\* without a seed; a second failure is raised to api_cluster, which answers
\* from its except branch.
ApiRetry ==
    /\ ap_pc = "retry"
    /\ LET k == Min(fallback_clusters, Len(ap_ids))
       IN  IF FitRaises(k, Len(ap_ids), ap_bad)
             THEN /\ ApiReturn("failed", <<>>)
                  /\ UNCHANGED ap_fits
             ELSE \E labels \in Labelings(Len(ap_ids), k) :
                    /\ ApiReturn("clustered", ClustersFrom(ap_ids, labels, k, 0, TRUE))
                    /\ ap_fits' = ap_fits + 1
    /\ UNCHANGED apInput

\* ------------------------------------------------------------------------
\* vector_based_clustering (learning_memory_service.py)
\* ------------------------------------------------------------------------

\* Latest reading of the millisecond clock during one call, the first
\* reading being 0.
MaxClock == 1

VARIABLES
    vb_pc,           \* "fit", "collect", "done", "idle"
    vb_memories,     \* memories_with_embeddings: id and timestamp of each
    vb_fault,        \* "none", "ragged" embeddings, "summary" generation raises
    vb_k,            \* n_clusters
    cluster_labels,
    vb_i,            \* index of the loop over cluster_labels, 1-based
    vb_now,          \* int(datetime.now().timestamp() * 1000) as last read
    vb_clusters,     \* the clusters dict, as its items in insertion order
    vb_result        \* "none", "vector", "temporal", "last_resort"

vbVars == <<vb_pc, vb_memories, vb_fault, vb_k, cluster_labels, vb_i, vb_now,
            vb_clusters, vb_result>>

vbInput == <<vb_memories, vb_fault>>

\* What determine_optimal_clusters of learning_memory_service.py can hand
\* back for n_samples vectors; it catches what it raises.
ElbowClusters(n_samples) ==
    IF n_samples <= 5 THEN {Max(2, n_samples - 1)}
    ELSE IF Min(15, n_samples \div 2) <= 2 THEN {2}
    ELSE (2..Min(15, n_samples \div 2)) \cup {Min(5, Max(2, n_samples \div 10))}

\* The later readings the clock can give after the reading now.
ClockAfter(now) == now..Min(now + 1, MaxClock)

\* clusters[cluster_id]["memory_ids"].append(memory['id']), the cluster
\* being created first when cluster_id is not a key of clusters.
AddToCluster(dict, cluster_id, id) ==
    IF \E c \in 1..Len(dict) : dict[c].cluster_id = cluster_id
      THEN [c \in 1..Len(dict) |->
              IF dict[c].cluster_id = cluster_id
                THEN [dict[c] EXCEPT !.memory_ids = Append(@, id)]
                ELSE dict[c]]
      ELSE Append(dict, [cluster_id |-> cluster_id, memory_ids |-> <<id>>])

\* What time_based_clustering returns for the memories: one cluster
\* "cluster_time_{i}_{now}" per time bucket.
TemporalClusters(mems, now) ==
    LET buckets == TimeBuckets(SortByTimestamp(mems))
    IN  [b \in 1..Len(buckets) |->
           [cluster_id |-> <<b - 1, now>>, memory_ids |-> MemoryIds(buckets[b])]]

InitVector ==
    /\ vb_pc = "fit"
    /\ vb_memories \in
         UNION {{f \in [1..n -> [id : 1..n, timestamp : 0..1]] :
                   \A x \in 1..n : f[x].id = x} : n \in 0..MaxVectors}
    /\ vb_fault \in {"none", "ragged", "summary"}
    /\ vb_k = 0
    /\ cluster_labels = <<>>
    /\ vb_i = 0
    /\ vb_now = 0
    /\ vb_clusters = <<>>
    /\ vb_result = "none"

IdleVector ==
    /\ vb_pc = "idle"
    /\ vb_memories = <<>>
    /\ vb_fault = "none"
    /\ vb_k = 0
    /\ cluster_labels = <<>>
    /\ vb_i = 0
    /\ vb_now = 0
    /\ vb_clusters = <<>>
    /\ vb_result = "none"

\* "except Exception": the result of time_based_clustering on the same
\* memories is returned; when the summary generation raises there too, that
\* is its last resort, one cluster of all memories.
VectorFallback ==
    /\ vb_pc' = "done"
    /\ \E now \in ClockAfter(vb_now) :
         /\ vb_now' = now
         /\ vb_clusters' =
              IF vb_fault = "summary" /\ vb_memories # <<>>
                THEN <<[cluster_id |-> <<0, now>>,
                        memory_ids |-> MemoryIds(vb_memories)]>>
                ELSE TemporalClusters(vb_memories, now)
    /\ vb_result' = IF vb_fault = "summary" /\ vb_memories # <<>>
                      THEN "last_resort" ELSE "temporal"

\* np.array of the embeddings, determine_optimal_clusters and the fit.
VectorFit ==
    /\ vb_pc = "fit"
    /\ \E k \in ElbowClusters(Len(vb_memories)) :
         /\ vb_k' = IF vb_fault = "ragged" THEN 0 ELSE k
         /\ IF FitRaises(k, Len(vb_memories), vb_fault = "ragged")
              THEN /\ VectorFallback
                   /\ UNCHANGED <<cluster_labels, vb_i>>
              ELSE /\ cluster_labels' \in Labelings(Len(vb_memories), k)
                   /\ vb_i' = 1
                   /\ vb_pc' = "collect"
                   /\ UNCHANGED <<vb_now, vb_clusters, vb_result>>
    /\ UNCHANGED vbInput

\* One iteration of "for i, label in enumerate(cluster_labels)": the cluster
\* id is built from the label and the clock as it reads now.
VectorCollect ==
    /\ vb_pc = "collect"
    /\ vb_i <= Len(vb_memories)
    /\ \E now \in ClockAfter(vb_now) :
         /\ vb_now' = now
         /\ vb_clusters' = AddToCluster(vb_clusters, <<cluster_labels[vb_i], now>>,
                                        vb_memories[vb_i].id)
    /\ vb_i' = vb_i + 1
    /\ UNCHANGED <<vb_pc, vb_k, cluster_labels, vb_result>>
    /\ UNCHANGED vbInput

\* The loop that gives each cluster its summary, topic and keywords, and the
\* return of the clusters; a summary generation that raises ends in the
\* except branch.
VectorReturn ==
    /\ vb_pc = "collect"
    /\ vb_i > Len(vb_memories)
    /\ IF vb_fault = "summary"
         THEN VectorFallback
         ELSE /\ vb_pc' = "done"
              /\ vb_result' = "vector"
              /\ UNCHANGED <<vb_now, vb_clusters>>
    /\ UNCHANGED <<vb_k, cluster_labels, vb_i>>
    /\ UNCHANGED vbInput

\* ------------------------------------------------------------------------
\* LearningMemoryService.cosine_similarity, called on its own
\* (learning_memory.py)
\* ------------------------------------------------------------------------

\* Largest length of the two vectors.
MaxDim == 2

\* The vectors handed to cosine_similarity: entries -1, 0 and 1.
CosineVectors == UNION {[1..n -> -1..1] : n \in 0..MaxDim}

VARIABLES
    cs_pc,          \* "call", "done", "idle"
    cs_vec1,
    cs_vec2,
    cs_dot_raises,  \* np.dot raises on the two (an entry that is no number)
    cs_result,      \* the returned similarity, in hundredths
    cs_divided,     \* "dot_product / (norm1 * norm2)" was evaluated
    cs_raised       \* an exception left cosine_similarity

csVars == <<cs_pc, cs_vec1, cs_vec2, cs_dot_raises, cs_result, cs_divided,
            cs_raised>>

InitCosine ==
    /\ cs_pc = "call"
    /\ cs_vec1 \in CosineVectors
    /\ cs_vec2 \in CosineVectors
    /\ cs_dot_raises \in BOOLEAN
    /\ cs_result = 0
    /\ cs_divided = FALSE
    /\ cs_raised = FALSE

IdleCosine ==
    /\ cs_pc = "idle"
    /\ cs_vec1 = <<>>
    /\ cs_vec2 = <<>>
    /\ cs_dot_raises = FALSE
    /\ cs_result = 0
    /\ cs_divided = FALSE
    /\ cs_raised = FALSE

\* One call of cosine_similarity: the length test, the dot product and the
\* norms inside the try, the zero-norm test, the division; whatever the try
\* raises is answered with 0.0.
CosineCall ==
    /\ cs_pc = "call"
    /\ cs_pc' = "done"
    /\ cs_result' = IF cs_dot_raises THEN 0 ELSE CosineSimilarity(cs_vec1, cs_vec2)
    /\ cs_divided' = /\ Len(cs_vec1) = Len(cs_vec2)
                     /\ ~cs_dot_raises
                     /\ Dot(cs_vec1, cs_vec1, 1) # 0
                     /\ Dot(cs_vec2, cs_vec2, 1) # 0
    /\ cs_raised' = FALSE
    /\ UNCHANGED <<cs_vec1, cs_vec2, cs_dot_raises>>

\* ------------------------------------------------------------------------
\* Specifications: one per entry point, the other entry points idle
\* ------------------------------------------------------------------------

vars == <<selVars, cvVars, mgVars, rkVars, tbVars, prVars, apVars, vbVars, csVars>>

SelectorInit == InitSelector /\ IdleCluster /\ IdleMerge /\ IdleRank /\ IdleTime /\ IdlePrepare /\ IdleApi /\ IdleVector /\ IdleCosine

SelectorNext ==
    \/ SelImport /\ UNCHANGED <<cvVars, mgVars, rkVars, tbVars, prVars, apVars, vbVars, csVars>>
    \/ SelTier /\ UNCHANGED <<cvVars, mgVars, rkVars, tbVars, prVars, apVars, vbVars, csVars>>
    \/ SelPCA /\ UNCHANGED <<cvVars, mgVars, rkVars, tbVars, prVars, apVars, vbVars, csVars>>
    \/ SelTrial /\ UNCHANGED <<cvVars, mgVars, rkVars, tbVars, prVars, apVars, vbVars, csVars>>
    \/ SelFinish /\ UNCHANGED <<cvVars, mgVars, rkVars, tbVars, prVars, apVars, vbVars, csVars>>

SpecSelector == SelectorInit /\ [][SelectorNext]_vars

ClusterInit == IdleSelector /\ InitCluster /\ IdleMerge /\ IdleRank /\ IdleTime /\ IdlePrepare /\ IdleApi /\ IdleVector /\ IdleCosine

ClusterNext ==
    \/ CorePrimary /\ UNCHANGED <<selVars, mgVars, rkVars, tbVars, prVars, apVars, vbVars, csVars>>
    \/ CoreRetry /\ UNCHANGED <<selVars, mgVars, rkVars, tbVars, prVars, apVars, vbVars, csVars>>
    \/ ServiceCluster /\ UNCHANGED <<selVars, mgVars, rkVars, tbVars, prVars, apVars, vbVars, csVars>>
    \/ DirectCluster /\ UNCHANGED <<selVars, mgVars, rkVars, tbVars, prVars, apVars, vbVars, csVars>>

SpecCluster == ClusterInit /\ [][ClusterNext]_vars

ClusterTwiceInit == ClusterInit /\ cv_impl = "core" /\ cv_sklearn

ClusterTwiceNext ==
    \/ CorePrimary /\ UNCHANGED <<selVars, mgVars, rkVars, tbVars, prVars, apVars, vbVars, csVars>>
    \/ CoreRetry /\ UNCHANGED <<selVars, mgVars, rkVars, tbVars, prVars, apVars, vbVars, csVars>>
    \/ CallAgain /\ UNCHANGED <<selVars, mgVars, rkVars, tbVars, prVars, apVars, vbVars, csVars>>

SpecClusterTwice == ClusterTwiceInit /\ [][ClusterTwiceNext]_vars

MergeInit == IdleSelector /\ IdleCluster /\ InitMerge /\ IdleRank /\ IdleTime /\ IdlePrepare /\ IdleApi /\ IdleVector /\ IdleCosine

MergeNext ==
    \/ Seed /\ UNCHANGED <<selVars, cvVars, rkVars, tbVars, prVars, apVars, vbVars, csVars>>
    \/ MergeStep /\ UNCHANGED <<selVars, cvVars, rkVars, tbVars, prVars, apVars, vbVars, csVars>>
    \/ MergeReturn /\ UNCHANGED <<selVars, cvVars, rkVars, tbVars, prVars, apVars, vbVars, csVars>>
    \/ MergeAgain /\ UNCHANGED <<selVars, cvVars, rkVars, tbVars, prVars, apVars, vbVars, csVars>>

SpecMerge == MergeInit /\ [][MergeNext]_vars

RankInit == IdleSelector /\ IdleCluster /\ IdleMerge /\ InitRank /\ IdleTime /\ IdlePrepare /\ IdleApi /\ IdleVector /\ IdleCosine

RankNext ==
    \/ RankStart /\ UNCHANGED <<selVars, cvVars, mgVars, tbVars, prVars, apVars, vbVars, csVars>>
    \/ RankScore /\ UNCHANGED <<selVars, cvVars, mgVars, tbVars, prVars, apVars, vbVars, csVars>>
    \/ RankReturn /\ UNCHANGED <<selVars, cvVars, mgVars, tbVars, prVars, apVars, vbVars, csVars>>

SpecRank == RankInit /\ [][RankNext]_vars

TimeInit == IdleSelector /\ IdleCluster /\ IdleMerge /\ IdleRank /\ InitTime /\ IdlePrepare /\ IdleApi /\ IdleVector /\ IdleCosine

TimeNext ==
    \/ TimeSort /\ UNCHANGED <<selVars, cvVars, mgVars, rkVars, prVars, apVars, vbVars, csVars>>
    \/ TimeBucket /\ UNCHANGED <<selVars, cvVars, mgVars, rkVars, prVars, apVars, vbVars, csVars>>
    \/ TimeEmit /\ UNCHANGED <<selVars, cvVars, mgVars, rkVars, prVars, apVars, vbVars, csVars>>
    \/ TimeReturn /\ UNCHANGED <<selVars, cvVars, mgVars, rkVars, prVars, apVars, vbVars, csVars>>

SpecTime == TimeInit /\ [][TimeNext]_vars

PrepareInit == IdleSelector /\ IdleCluster /\ IdleMerge /\ IdleRank /\ IdleTime /\ InitPrepare /\ IdleApi /\ IdleVector /\ IdleCosine

PrepareNext ==
    \/ PrepCheck /\ UNCHANGED <<selVars, cvVars, mgVars, rkVars, tbVars, apVars, vbVars, csVars>>
    \/ PrepEmbed /\ UNCHANGED <<selVars, cvVars, mgVars, rkVars, tbVars, apVars, vbVars, csVars>>
    \/ PrepKeywords /\ UNCHANGED <<selVars, cvVars, mgVars, rkVars, tbVars, apVars, vbVars, csVars>>
    \/ PrepSeeded /\ UNCHANGED <<selVars, cvVars, mgVars, rkVars, tbVars, apVars, vbVars, csVars>>

SpecPrepare == PrepareInit /\ [][PrepareNext]_vars

ApiInit == IdleSelector /\ IdleCluster /\ IdleMerge /\ IdleRank /\ IdleTime /\ IdlePrepare /\ InitApi /\ IdleVector /\ IdleCosine

ApiNext ==
    \/ ApiRequest /\ UNCHANGED <<selVars, cvVars, mgVars, rkVars, tbVars, prVars, vbVars, csVars>>
    \/ ApiPrimary /\ UNCHANGED <<selVars, cvVars, mgVars, rkVars, tbVars, prVars, vbVars, csVars>>
    \/ ApiRetry /\ UNCHANGED <<selVars, cvVars, mgVars, rkVars, tbVars, prVars, vbVars, csVars>>

SpecApi == ApiInit /\ [][ApiNext]_vars

VectorInit == IdleSelector /\ IdleCluster /\ IdleMerge /\ IdleRank /\ IdleTime /\ IdlePrepare /\ IdleApi /\ InitVector /\ IdleCosine

VectorNext ==
    \/ VectorFit /\ UNCHANGED <<selVars, cvVars, mgVars, rkVars, tbVars, prVars, apVars, csVars>>
    \/ VectorCollect /\ UNCHANGED <<selVars, cvVars, mgVars, rkVars, tbVars, prVars, apVars, csVars>>
    \/ VectorReturn /\ UNCHANGED <<selVars, cvVars, mgVars, rkVars, tbVars, prVars, apVars, csVars>>

SpecVector == VectorInit /\ [][VectorNext]_vars

MismatchInit == (ClusterInit /\ cv_impl = "core") \/ VectorInit

MismatchNext ==
    \/ CorePrimary /\ UNCHANGED <<selVars, mgVars, rkVars, tbVars, prVars, apVars, vbVars, csVars>>
    \/ CoreRetry /\ UNCHANGED <<selVars, mgVars, rkVars, tbVars, prVars, apVars, vbVars, csVars>>
    \/ VectorFit /\ UNCHANGED <<selVars, cvVars, mgVars, rkVars, tbVars, prVars, apVars, csVars>>
    \/ VectorCollect /\ UNCHANGED <<selVars, cvVars, mgVars, rkVars, tbVars, prVars, apVars, csVars>>
    \/ VectorReturn /\ UNCHANGED <<selVars, cvVars, mgVars, rkVars, tbVars, prVars, apVars, csVars>>

SpecMismatch == MismatchInit /\ [][MismatchNext]_vars

CosineInit == IdleSelector /\ IdleCluster /\ IdleMerge /\ IdleRank /\ IdleTime /\ IdlePrepare /\ IdleApi /\ IdleVector /\ InitCosine

CosineNext ==
    \/ CosineCall /\ UNCHANGED <<selVars, cvVars, mgVars, rkVars, tbVars, prVars, apVars, vbVars>>

SpecCosine == CosineInit /\ [][CosineNext]_vars

Init == SelectorInit \/ ClusterInit \/ MergeInit \/ RankInit \/ TimeInit
      \/ PrepareInit
      \/ ApiInit
      \/ VectorInit
      \/ CosineInit

Next ==
    SelectorNext \/ ClusterNext \/ ClusterTwiceNext \/ MergeNext \/ RankNext
      \/ TimeNext
      \/ PrepareNext
      \/ ApiNext
      \/ VectorNext
      \/ CosineNext

Spec == Init /\ [][Next]_vars

\* ------------------------------------------------------------------------
\* Claims
\* ------------------------------------------------------------------------

\* The ids of a sequence, as a set.
Range(seq) == {seq[x] : x \in 1..Len(seq)}

\* C1, as stated: for every input size N >= 2 the cluster count k returned
\* by determine_optimal_clusters satisfies 2 <= k <= N - 1.
C1_CountWithinOriginalRange ==
    (sel_pc = "returned" /\ sample_count >= 2)
      => (2 <= sel_result /\ sel_result <= sample_count - 1)

\* C1, amended: for every input size N >= 2, with scikit-learn importable
\* the returned k satisfies 2 <= k <= N - 1 when N >= 3 and k = 2 (= N) when
\* N = 2; without scikit-learn the returned k is the default 5.
C1_CountWithinRange ==
    (sel_pc = "returned" /\ sample_count >= 2)
      => /\ (sklearn_ok /\ sample_count >= 3)
              => (2 <= sel_result /\ sel_result <= sample_count - 1)
         /\ (sklearn_ok /\ sample_count = 2) => sel_result = 2
         /\ ~sklearn_ok => sel_result = import_error_clusters

\* C1 witness: a mid-tier call returns the candidate of the best silhouette.
C1_Witness ==
    /\ sel_pc = "returned"
    /\ sklearn_ok
    /\ sample_count >= small_threshold
    /\ sample_count < force_min_threshold
    /\ sel_trials >= 2
    /\ max_score > -ScoreScale
    /\ sel_result = best_n_clusters
    /\ sel_result > min_clusters

\* C2, as stated: determine_optimal_clusters never raises, whatever fails
\* inside it (a trial k-means fit, the PCA projection, the silhouette, the
\* import): it always returns an integer k.
C2_SelectorNeverRaises == sel_pc # "raised"

C4_RetryThenExplicitError ==
    (cv_pc = "done" /\ cv_impl \in {"core", "direct"} /\ cv_primary_failed)
      => /\ cv_retries = 1
         /\ cv_k = Min(fallback_clusters, Len(ids))
         /\ cv_clusters = <<>>
              => (cv_error = "clustering_failed" /\ cv_causes = {"primary", "retry"})

C6_SurvivorsAreReturned ==
    (mg_pc = "done" /\ mg_pass = 1)
      => /\ Len(clusters) = Len(survivors)
         /\ \A x \in 1..Len(survivors) :
              \E c \in 1..Len(clusters) :
                /\ clusters[c].memory_ids = survivors[x].memory_ids
                /\ clusters[c].keywords = survivors[x].keywords
                /\ clusters[c].relevance = survivors[x].relevance
                /\ clusters[c].topic \in clusters[c].keywords

C8_ClustersCoverInput ==
    (mg_pc = "done" /\ mg_pass = 1 /\ Len(memories) >= 1)
      => UNION {clusters[c].memory_ids : c \in 1..Len(clusters)} = 1..Len(memories)

C11_LexicalOnMismatchCosineOnMatch ==
    (rk_pc = "done" /\ query_vector # <<>>)
      => \A m \in 1..Len(stored) :
           (stored[m].embedding.kind = "list" /\ stored[m].embedding.vec # <<>>)
             => /\ \E x \in 1..Len(scored_memories) :
                     /\ scored_memories[x].id = stored[m].id
                     /\ scored_memories[x].similarity
                          = IF Len(stored[m].embedding.vec) # Len(query_vector)
                              THEN LexicalSimilarity(query_words, stored[m].words)
                              ELSE CosineSimilarity(query_vector, stored[m].embedding.vec)
                /\ Len(stored) <= limit => stored[m].id \in Range(rk_result)

\* C11 witness: a retrieval over two records, one of the query's dimension
\* with a positive cosine score and one of another dimension with a positive
\* word overlap, both returned.
C11_Witness ==
    /\ rk_pc = "done"
    /\ Len(rk_result) = 2
    /\ \E a, b \in 1..Len(stored) :
         /\ stored[a].embedding.kind = "list"
         /\ stored[b].embedding.kind = "list"
         /\ Len(stored[a].embedding.vec) = Len(query_vector)
         /\ CosineSimilarity(query_vector, stored[a].embedding.vec) > 0
         /\ stored[b].embedding.vec # <<>>
         /\ Len(stored[b].embedding.vec) # Len(query_vector)
         /\ LexicalSimilarity(query_words, stored[b].words) > 0

\* C12: retrieve_similar_memories returns the scored records in descending
\* score order, records of equal score in their load order, truncated to the
\* first limit entries: the result has min(limit, number of scored records)
\* entries.
C12_DescendingStableTruncated ==
    rk_pc = "done"
      => /\ \A x, y \in 1..Len(scored_memories) :
              x < y => \/ scored_memories[x].similarity > scored_memories[y].similarity
                       \/ /\ scored_memories[x].similarity = scored_memories[y].similarity
                          /\ scored_memories[x].id < scored_memories[y].id
         /\ Len(rk_result) = Min(limit, Len(scored_memories))
         /\ \A x \in 1..Len(rk_result) : rk_result[x] = scored_memories[x].id

\* C12 witness: two records of equal score were ranked and the limit cut the
\* result to one entry.
C12_Witness ==
    /\ rk_pc = "done"
    /\ Len(scored_memories) = 2
    /\ scored_memories[1].similarity = scored_memories[2].similarity
    /\ limit = 1
    /\ Len(rk_result) = 1

\* C13, as stated: a stored record whose scoring raises does not abort the
\* retrieval: every other record is scored, ranked and returned, and the bad
\* record stays in the ranking with a degraded score.
C13_BadRecordKeptDegraded ==
    (rk_pc = "done" /\ query_vector # <<>>)
      => \A m \in 1..Len(stored) :
           HasEmbedding(stored[m])
             => \E x \in 1..Len(scored_memories) : scored_memories[x].id = stored[m].id

\* C13, amended: a stored record whose scoring raises does not abort the
\* retrieval: every other record with an embedding is scored, ranked and
\* returned within the limit; a record on which the cosine computation
\* raises stays in the ranking with score 0, and a record on which the
\* scoring raises outside cosine_similarity is left out of the ranking.
C13_BadRecordSkippedOrZero ==
    (rk_pc = "done" /\ query_vector # <<>>)
      => /\ \A m \in 1..Len(stored) :
              LET e == stored[m].embedding
                  ranked == {x \in 1..Len(scored_memories) :
                               scored_memories[x].id = stored[m].id}
              IN  /\ e.kind = "scalar"
                       => (ranked = {} /\ stored[m].id \notin Range(rk_result))
                  /\ (e.kind = "mixed" /\ Len(e.vec) = Len(query_vector))
                       => (ranked # {} /\ \A x \in ranked : scored_memories[x].similarity = 0)
                  /\ (e.kind \in {"list", "mixed"} /\ e.vec # <<>>)
                       => /\ Cardinality(ranked) = 1
                          /\ \A x \in ranked : x <= limit => rk_result[x] = stored[m].id
         /\ Len(rk_result) = Min(limit, Len(scored_memories))

\* C13 witness: a retrieval over a record whose scoring raises and a record
\* with a usable embedding, which is returned.
C13_Witness ==
    /\ rk_pc = "done"
    /\ query_vector # <<>>
    /\ Len(rk_result) = 1
    /\ \E a, b \in 1..Len(stored) :
         /\ stored[a].embedding.kind = "scalar"
         /\ stored[b].embedding.kind = "list"
         /\ stored[b].id \in Range(rk_result)

C15_AtMostBucketCount ==
    tb_pc = "done"
      => Len(tb_clusters)
           <= Min(max_time_buckets,
                  Max(min_time_buckets, Len(tb_memories) \div time_bucket_divisor))

\* C16: the clusters time_based_clustering emits partition its input: every
\* record id is in exactly one cluster, every cluster is non-empty, each
\* timestamp of a cluster is at most each timestamp of the next clusters,
\* and 5 records with distinct timestamps give between 2 and 5 clusters when
\* the bucketing does not raise.
C16_BucketsPartitionInTimeOrder ==
    tb_pc = "done"
      => /\ \A c \in 1..Len(tb_clusters) : Len(tb_clusters[c]) >= 1
         /\ \A m \in 1..Len(tb_memories) :
              Cardinality({<<c, x>> \in (1..Len(tb_clusters)) \X (1..Len(tb_memories)) :
                             /\ x <= Len(tb_clusters[c])
                             /\ tb_clusters[c][x] = tb_memories[m].id}) = 1
         /\ \A c, d \in 1..Len(tb_clusters) :
              c < d => \A x \in 1..Len(tb_clusters[c]), y \in 1..Len(tb_clusters[d]) :
                         tb_memories[tb_clusters[c][x]].timestamp
                           <= tb_memories[tb_clusters[d][y]].timestamp
         /\ (/\ Len(tb_memories) = 5
             /\ ~tb_fell_back
             /\ \A a, b \in 1..5 :
                  a # b => tb_memories[a].timestamp # tb_memories[b].timestamp)
              => (2 <= Len(tb_clusters) /\ Len(tb_clusters) <= 5)

\* C16 witness: five records given latest first were sorted and bucketed
\* into three clusters.
C16_Witness ==
    /\ tb_pc = "done"
    /\ ~tb_fell_back
    /\ Len(tb_memories) = 5
    /\ tb_memories[1].timestamp > tb_memories[5].timestamp
    /\ Len(tb_clusters) = 3
    /\ tb_clusters[1] = <<5, 4>>

\* C17, as stated: a clustering call given fewer than 2 records is rejected
\* with an explicit InsufficientData error and produces no clusters (the
\* statistical library being present).
C17_FewerThanTwoRejected ==
    (cv_pc = "done" /\ cv_sklearn /\ Len(ids) < 2)
      => (cv_error = "insufficient_data" /\ cv_clusters = <<>>)

\* C18, as stated: two calls of cluster_vectors with identical input and
\* identical configuration return identical cluster assignments (the same
\* groups of member ids) on every path, primary attempt and simplified
\* retry.
C18_SameInputSameAssignment ==
    (cv_pc = "done" /\ cv_call = 2)
      => {Range(cv_clusters[c]) : c \in 1..Len(cv_clusters)}
           = {Range(first_clusters[c]) : c \in 1..Len(first_clusters)}

\* clamp(x, lo, hi) of the reference tier policy.
Clamp(x, lo, hi) == IF x < lo THEN lo ELSE IF x > hi THEN hi ELSE x

C20_FormulaRoundsToNearest ==
    (/\ sel_pc = "returned"
     /\ sklearn_ok
     /\ sample_count >= 20 /\ sample_count < 400
     /\ max_score = -ScoreScale)
      => \E r \in 1..sample_count :
           /\ (2 * r - 1) * (2 * r - 1) <= 2 * sample_count
           /\ 2 * sample_count < (2 * r + 1) * (2 * r + 1)
           /\ sel_result = Clamp(r, 5, 30)

\* C20, amended: in the mid tier, when no trial yields a valid score,
\* determine_optimal_clusters returns k = clamp(floor(sqrt(N/2)), 5, 30), the
\* square root truncated to the integer r: 2r^2 <= N < 2(r + 1)^2.
C20_FormulaTruncates ==
    (/\ sel_pc = "returned"
     /\ sklearn_ok
     /\ sample_count >= 20 /\ sample_count < 400
     /\ max_score = -ScoreScale)
      => \E r \in 1..sample_count :
           /\ 2 * r * r <= sample_count
           /\ sample_count < 2 * (r + 1) * (r + 1)
           /\ sel_result = Clamp(r, 5, 30)

\* C20 witness: a mid-tier call whose trials all failed to score returns a
\* count above the lower clamp, for an N whose square root of N/2 rounds up.
C20_Witness ==
    /\ sel_pc = "returned"
    /\ sklearn_ok
    /\ sample_count >= 20 /\ sample_count < 400
    /\ max_score = -ScoreScale
    /\ sel_trials >= 2
    /\ sel_result >= 6
    /\ sample_count >= 2 * sel_result * sel_result + 2 * sel_result + 1

\* C21, as stated: every cluster a vector clustering call emits
\* (clustering_core.cluster_vectors, ClusteringService.cluster_vectors) has at
\* least one member, a label without members giving no output cluster, and
\* the output has at most k clusters.
C21_NoEmptyClusterEmitted ==
    (cv_pc = "done" /\ cv_impl \in {"core", "service"} /\ cv_error = "none")
      => /\ \A c \in 1..Len(cv_clusters) : Len(cv_clusters[c]) >= 1
         /\ Len(cv_clusters) <= cv_k

C29_OneClusterPerLabel ==
    (vb_pc = "done" /\ vb_result = "vector") =>
      /\ Len(vb_clusters) <= vb_k
      /\ \A x, y \in 1..Len(vb_memories) :
           cluster_labels[x] = cluster_labels[y]
             => \E c \in 1..Len(vb_clusters) :
                  {vb_memories[x].id, vb_memories[y].id}
                    \subseteq Range(vb_clusters[c].memory_ids)

\* The squared norm of a vector.
SquaredNorm(vec) == Dot(vec, vec, 1)

\* C25: cosine_similarity returns 0 whenever either vector has zero norm,
\* without dividing by zero and without raising.
C25_ZeroNormGivesZero ==
    (cs_pc = "done" /\ (SquaredNorm(cs_vec1) = 0 \/ SquaredNorm(cs_vec2) = 0))
      => (cs_result = 0 /\ ~cs_divided /\ ~cs_raised)

\* C25 witness: cosine_similarity has answered for a zero vector and a
\* vector of the same length that is not zero.
C25_Witness ==
    /\ cs_pc = "done"
    /\ ~cs_dot_raises
    /\ cs_vec1 = <<0, 0>>
    /\ cs_vec2 = <<1, -1>>
    /\ cs_result = 0

\* C26, as stated: every cluster center returned by cluster_vectors has the
\* same dimension D as the input vectors, for every N and D (including
\* D > 100 with dimensionality reduction enabled).
C26_CentersHaveInputDimension ==
    (cv_pc = "done" /\ cv_impl = "core" /\ cv_clusters # <<>>)
      => cv_center_dim = vector_dim

\* C27: when automatic selection is on and the caller also requests a
\* positive cluster count r, cluster_vectors uses
\* k = floor(2*r*a / (r + a)), a being the automatically selected count;
\* this k lies between min(r, a) and max(r, a) and never exceeds the
\* arithmetic mean of r and a.
C27_HarmonicCountBetweenBoth ==
    (/\ cv_impl = "core"
     /\ cv_pc \in {"retry", "done"}
     /\ cv_retries = 0
     /\ use_optimal_clusters
     /\ requested_clusters > 0
     /\ cv_optimal > 0)
      => LET r == requested_clusters
             a == cv_optimal
         IN  /\ cv_k * (r + a) <= 2 * r * a
             /\ (cv_k + 1) * (r + a) > 2 * r * a
             /\ Min(r, a) <= cv_k
             /\ cv_k <= Max(r, a)
             /\ 2 * cv_k <= r + a

\* C27 witness: a call that requested 3 clusters while 20 were selected
\* automatically has fitted 5.
C27_Witness ==
    /\ cv_impl = "core"
    /\ cv_pc = "done"
    /\ cv_retries = 0
    /\ use_optimal_clusters
    /\ requested_clusters = 3
    /\ cv_optimal = 20
    /\ cv_k = 5
    /\ cv_error = "none"

C30_SearchOnlyInMidTier ==
    /\ (sel_pc \in {"pca", "loop"} \/ sel_trials > 0)
         => /\ 20 <= sample_count
            /\ sample_count <= 399
            /\ SampleLen(sample_count) = sample_count
            /\ SampleLen(sample_count) <= 1000
    /\ sel_trials <= 20
    /\ (/\ sel_pc = "loop"
        /\ n_clusters <= MaxAttempt(sample_count)
        /\ n_clusters < SampleLen(sample_count))
         => (3 <= n_clusters /\ n_clusters <= Min(40, sample_count \div 5))
    /\ sel_trials > 0
         => (3 <= best_n_clusters /\ best_n_clusters <= Min(40, sample_count \div 5))

\* C30 witness: a search has evaluated 20 candidates, the last of them 22.
C30_Witness ==
    /\ sel_pc = "loop"
    /\ sel_trials = 20
    /\ n_clusters = 23
    /\ MaxAttempt(sample_count) = 22

====
